---- MODULE Spec2Model ----
(***************************************************************************)
(* SSD evaluation: the extended metrics library (tf_extended/metrics.py),  *)
(* the preprocessing selector (preprocessing/preprocessing_factory.py)     *)
(* and the evaluation driver (eval_ssd_network.py).                        *)
(*                                                                         *)
(* Four specifications share the module:                                   *)
(*   Spec      - one streaming_precision_recall_arrays metric fed batches  *)
(*   SpecFn    - the pure functions, applied to inputs drawn in InitFn     *)
(*   SpecOrder - two metrics fed the same batches in two orders            *)
(*   SpecMain  - the driver main(), statement by statement                 *)
(*                                                                         *)
(* Real numbers (float32 tensors) are exact rationals <<num, den>> with    *)
(* den > 0 in lowest terms; <<1, 0>> is +infinity.  Rounding of float32    *)
(* is not modelled.  A 1-D tensor is a sequence, a 2-D tensor a sequence   *)
(* of rows.                                                                *)
(***************************************************************************)
EXTENDS Integers, Sequences, FiniteSets, TLC

VARIABLES
    \* ---- streaming_precision_recall_arrays (Spec) ----
    remove_zero_labels,   \* the keyword argument, fixed at construction
    v_nobjects,           \* local variable, int64 scalar
    v_scores,             \* local variable, float vector
    v_tp,                 \* local variable, float vector
    v_fp,                 \* local variable, float vector
    fetched,              \* the op the last session run fetched, and its result
    fed,                  \* history: the batches fed to update_op so far
    \* ---- pure functions (SpecFn) ----
    fn,                   \* the function under application
    args,                 \* its arguments
    ret,                  \* its result, once applied
    done,                 \* 0 = not applied, 1 = applied, 2 = returned closure called
    \* ---- driver (SpecMain) ----
    FLAGS,                \* the command-line flags
    dataset,              \* the dataset split (num_samples), once resolved
    pc,                   \* position in main()
    error,                \* the exception main() died with, if any
    image_preprocessing_fn, \* the selected preprocessing closure
    built,                \* pipeline pieces constructed so far
    evals_run             \* batches evaluated by the evaluation loop

streamVars == <<remove_zero_labels, v_nobjects, v_scores, v_tp, v_fp, fetched,
               fed>>
fnVars     == <<fn, args, ret, done>>
mainVars   == <<FLAGS, dataset, pc, error, image_preprocessing_fn, built, evals_run>>
vars       == <<streamVars, fnVars, mainVars>>

(***************************************************************************)
(* Bounds of the model.                                                    *)
(***************************************************************************)
MaxLen == 2          \* longest tensor drawn for a pure function
MaxAcc == 2          \* most detections fed to one metric over a run
MaxUpdates == 2      \* most update_op runs

(***************************************************************************)
(* Sequence and rational helpers.                                          *)
(***************************************************************************)
Abs(x) == IF x < 0 THEN -x ELSE x

RECURSIVE GCD(_, _)
GCD(a, b) == IF b = 0 THEN a ELSE GCD(b, a % b)

\* n / d for integers n and d # 0, in lowest terms with a positive denominator
Frac(n, d) ==
    LET g == GCD(Abs(n), Abs(d))
        s == IF d < 0 THEN -1 ELSE 1
    IN  <<(s * n) \div g, (s * d) \div g>>

Zero == <<0, 1>>
One  == <<1, 1>>
Half == <<1, 2>>
Inf  == <<1, 0>>

RAdd(a, b) == Frac(a[1] * b[2] + b[1] * a[2], a[2] * b[2])
RSub(a, b) == Frac(a[1] * b[2] - b[1] * a[2], a[2] * b[2])
RMul(a, b) == Frac(a[1] * b[1], a[2] * b[2])
RLeq(a, b) == a[1] * b[2] <= b[1] * a[2]
RMax(a, b) == IF RLeq(a, b) THEN b ELSE a
RMinimum(a, b) == IF RLeq(a, b) THEN a ELSE b

RECURSIVE SumSeq(_)
SumSeq(s) == IF s = <<>> THEN 0 ELSE s[1] + SumSeq(Tail(s))

RECURSIVE RSumSeq(_)
RSumSeq(s) == IF s = <<>> THEN Zero ELSE RAdd(s[1], RSumSeq(Tail(s)))

\* tf.reduce_min: the minimum of all elements; the reduction of an empty
\* tensor is the identity of min, the largest value of the dtype
RECURSIVE ReduceMin(_)
ReduceMin(s) == IF s = <<>> THEN Inf ELSE RMinimum(s[1], ReduceMin(Tail(s)))

\* tf.cumsum(x, axis=0)
RECURSIVE CumSum(_)
CumSum(s) ==
    IF s = <<>> THEN <<>>
    ELSE LET n == Len(s)
             c == CumSum(SubSeq(s, 1, n - 1))
         IN  Append(c, (IF n = 1 THEN 0 ELSE c[n - 1]) + s[n])

\* tf.gather(params, indices)
Gather(params, idxes) == [p \in 1..Len(idxes) |-> params[idxes[p]]]

\* tf.reshape(t, [-1]) of a 2-D tensor: the rows one after the other
RECURSIVE Flatten(_)
Flatten(t) == IF t = <<>> THEN <<>> ELSE t[1] \o Flatten(Tail(t))

\* tf.boolean_mask(t, mask) of 1-D tensors
RECURSIVE BooleanMask(_, _)
BooleanMask(t, mask) ==
    IF t = <<>> THEN <<>>
    ELSE (IF mask[1] THEN <<t[1]>> ELSE <<>>) \o BooleanMask(Tail(t), Tail(mask))

\* math_ops.to_float of a boolean tensor
ToFloat(t) == [i \in 1..Len(t) |-> IF t[i] THEN 1 ELSE 0]

\* tf.nn.top_k(scores, k=tf.size(scores), sorted=True): the indices of the
\* entries by descending value; of two equal entries the lower index is first
RECURSIVE TopKIdxes(_, _)
TopKIdxes(scores, left) ==
    IF left = {} THEN <<>>
    ELSE LET best == CHOOSE i \in left :
                        \A j \in left : scores[i] > scores[j]
                                        \/ (scores[i] = scores[j] /\ i <= j)
         IN  <<best>> \o TopKIdxes(scores, left \ {best})

(***************************************************************************)
(* tf_extended/metrics.py                                                  *)
(***************************************************************************)
\* _safe_div on tensors of equal length: integer-valued numerators and
\* denominators, rational results
SafeDivNonZero(numerator, denominator) ==
    [i \in 1..Len(numerator) |->
        IF denominator[i] # 0
        THEN Frac(numerator[i], denominator[i])
        ELSE Zero]

SafeDiv(numerator, denominator) ==
    [i \in 1..Len(numerator) |->
        IF denominator[i] > 0
        THEN Frac(numerator[i], denominator[i])
        ELSE Zero]

\* a scalar denominator broadcast against a vector numerator
Broadcast(x, t) == [i \in 1..Len(t) |-> x]

VecAdd(a, b) == [i \in 1..Len(a) |-> a[i] + b[i]]

\* _precision_recall(n_gbboxes, scores, tp, fp): <<precision, recall>>
PrecisionRecallUnsorted(n_gbboxes, scores, tp, fp) ==
    LET ctp == CumSum(tp)
        cfp == CumSum(fp)
    IN  <<SafeDiv(ctp, VecAdd(ctp, cfp)),
          SafeDiv(ctp, Broadcast(n_gbboxes, ctp))>>

PrecisionRecall(n_gbboxes, scores, tp, fp) ==
    LET idxes == TopKIdxes(scores, 1..Len(scores))
        ctp == CumSum(Gather(tp, idxes))
        cfp == CumSum(Gather(fp, idxes))
        recall == SafeDiv(ctp, Broadcast(n_gbboxes, ctp))
        precision == SafeDiv(ctp, VecAdd(ctp, cfp))
    IN  <<precision, recall>>

\* tfe.cummax(x, reverse=True): the running maximum scanned from the end
RECURSIVE CumMaxReverse(_)
CumMaxReverse(x) ==
    IF x = <<>> THEN <<>>
    ELSE LET rest == CumMaxReverse(Tail(x))
         IN  <<IF rest = <<>> THEN x[1] ELSE RMax(x[1], rest[1])>> \o rest

\* average_precision(precision, recall)
AveragePrecisionNoEnvelope(precision, recall) ==
    LET p == <<Zero>> \o precision \o <<Zero>>
        rc == <<Zero>> \o recall \o <<One>>
        n == Len(p)
        mean_pre == [i \in 1..(n - 1) |-> RMul(RAdd(p[i + 1], p[i]), Half)]
        diff_rec == [i \in 1..(n - 1) |-> RSub(rc[i + 1], rc[i])]
    IN  RSumSeq([i \in 1..(n - 1) |-> RMul(mean_pre[i], diff_rec[i])])

AveragePrecision(precision, recall) ==
    LET p0 == <<Zero>> \o precision \o <<Zero>>
        rc == <<Zero>> \o recall \o <<One>>
        p == CumMaxReverse(p0)
        n == Len(p)
        mean_pre == [i \in 1..(n - 1) |-> RMul(RAdd(p[i + 1], p[i]), Half)]
        diff_rec == [i \in 1..(n - 1) |-> RSub(rc[i + 1], rc[i])]
    IN  RSumSeq([i \in 1..(n - 1) |-> RMul(mean_pre[i], diff_rec[i])])

\* precision_recall_values(xvals, precision, recall)
PrecisionRecallValues(xvals, precision, recall) ==
    [k \in 1..Len(xvals) |->
        LET mask == [i \in 1..Len(recall) |-> RLeq(recall[i], xvals[k])]
        IN  ReduceMin([i \in 1..Len(precision) |->
                          RMul(precision[i], IF mask[i] THEN One ELSE Zero)])]

(***************************************************************************)
(* preprocessing/preprocessing_factory.py                                  *)
(***************************************************************************)
preprocessing_fn_map_swapped ==
    [n \in {"vgg", "vgg_a", "vgg_16", "vgg_19"} |-> "vgg_preprocessing"]
    @@ [n \in {"inception_v3", "inception_resnet_v2", "xception",
               "xception_keras", "dception", "ssd_300_vgg"}
           |-> "inception_preprocessing"]

preprocessing_fn_map ==
    [n \in {"vgg", "vgg_a", "vgg_16", "vgg_19", "ssd_300_vgg"}
           |-> "vgg_preprocessing"]
    @@ [n \in {"inception_v3", "inception_resnet_v2", "xception",
               "xception_keras", "dception"} |-> "inception_preprocessing"]

\* get_preprocessing(name, is_training): the exception raised, or the closure
\* preprocessing_fn, which holds name and is_training
GetPreprocessing(name, is_training) ==
    IF name \notin DOMAIN preprocessing_fn_map
    THEN [raised |-> "ValueError",
          message |-> "Preprocessing name [" \o name \o "] was not recognized",
          function |-> <<>>]
    ELSE [raised |-> "",
          message |-> "",
          function |-> <<[name |-> name, is_training |-> is_training]>>]

\* preprocessing_fn(image, output_height, output_width, **kwargs) called with
\* the positional arguments `positional` and the keyword names `kwargs`
PreprocessingFn(closure, positional, kwargs) ==
    IF Len(positional) # 3 \/ "is_training" \in kwargs
    THEN [raised |-> "TypeError", forwarded |-> <<>>]
    ELSE [raised |-> "",
          forwarded |-> <<[module |-> preprocessing_fn_map[closure.name],
                           function |-> "preprocess_image",
                           positional |-> positional,
                           is_training |-> closure.is_training,
                           kwargs |-> kwargs]>>]

(***************************************************************************)
(* eval_ssd_network.py                                                     *)
(***************************************************************************)
\* An optional flag is <<>> when it is None and <<v>> when it holds v.
\* Python truth of a flag: None, 0 and '' are false.
TruthyInt(flag) == flag # <<>> /\ flag[1] # 0
TruthyStr(flag) == flag # <<>> /\ flag[1] # ""

\* math.ceil(a / float(b)) for b > 0
Ceil(a, b) == -((-a) \div b)

\* Number of batches...
NumBatches(max_num_batches, num_samples, batch_size) ==
    IF TruthyInt(max_num_batches)
    THEN max_num_batches[1]
    ELSE Ceil(num_samples, batch_size)

Tenth == <<1, 10>>
Pct(n) == Frac(n, 100)
LIST_RECALLS ==
    <<Pct(10), Pct(20), Pct(30), Pct(40), Pct(50), Pct(60), Pct(70), Pct(80),
      Pct(85), Pct(87), Pct(88), Pct(89), Pct(90), Pct(91), Pct(92), Pct(93),
      Pct(94), Pct(95), Pct(96), Pct(97), Pct(98), Pct(99)>>

(***************************************************************************)
(* Variables a specification does not use stay at these values.            *)
(***************************************************************************)
StreamIdle ==
    /\ remove_zero_labels = TRUE
    /\ v_nobjects = 0
    /\ v_scores = <<>>
    /\ v_tp = <<>>
    /\ v_fp = <<>>
    /\ fetched = <<>>
    /\ fed = <<>>

FnIdle ==
    /\ fn = ""
    /\ args = <<>>
    /\ ret = <<>>
    /\ done = 0

MainIdle ==
    /\ FLAGS = <<>>
    /\ dataset = <<>>
    /\ pc = ""
    /\ error = <<>>
    /\ image_preprocessing_fn = <<>>
    /\ built = <<>>
    /\ evals_run = 0

(***************************************************************************)
(* SpecFn: the pure functions applied to drawn inputs.                     *)
(***************************************************************************)
Ints == -2..2                       \* tensor entries fed to _safe_div
Scores == {1, 2, 3}                 \* detection scores (only their order matters)
Flags == {0, 1}                     \* true/false-positive flags as floats
Totals == -1..2                     \* ground-truth totals fed to _precision_recall
CurveValues == {Zero, <<1, 4>>, Half, One}
XvalsDomain == {<<>>, <<Half>>, <<Tenth, Half, One>>, <<One, Tenth>>, LIST_RECALLS}
Names == DOMAIN preprocessing_fn_map
         \cup {"", "VGG", "Vgg_16", "vgg_17", "resnet_v1_50", "ssd_512_vgg"}
Positionals == {<<"image", "height", "width">>,
                <<"image", "glabels", "gbboxes", "ssd_shape">>,
                <<"image", "height">>}
Kwargs == SUBSET {"is_training", "resize_side_min"}
OptInts == {<<>>} \cup {<<i>> : i \in -1..3}
Sizes == ((0..4) \X (1..3)) \cup {<<950, 100>>}

InitFn ==
    /\ StreamIdle
    /\ MainIdle
    /\ ret = <<>>
    /\ done = 0
    /\ fn \in {"_safe_div", "_precision_recall", "average_precision",
               "precision_recall_values", "get_preprocessing", "num_batches"}
    /\ \/ /\ fn = "_safe_div"
          /\ \E k \in 0..MaxLen :
                args \in [numerator : [1..k -> Ints], denominator : [1..k -> Ints]]
       \/ /\ fn = "_precision_recall"
          /\ \E k \in 0..MaxLen :
                args \in [n_gbboxes : Totals, scores : [1..k -> Scores],
                          tp : [1..k -> Flags], fp : [1..k -> Flags]]
       \/ /\ fn = "average_precision"
          /\ \E k \in 0..MaxLen :
                args \in [precision : [1..k -> CurveValues],
                          recall : [1..k -> CurveValues]]
       \/ /\ fn = "precision_recall_values"
          /\ \E k \in 0..MaxLen :
                args \in [xvals : XvalsDomain,
                          precision : [1..k -> CurveValues],
                          recall : [1..k -> CurveValues]]
       \/ /\ fn = "get_preprocessing"
          /\ args \in [name : Names, is_training : BOOLEAN]
       \/ /\ fn = "num_batches"
          /\ \E sz \in Sizes :
                args \in [max_num_batches : OptInts,
                          num_samples : {sz[1]}, batch_size : {sz[2]}]

Returns(f, value) ==
    /\ fn = f
    /\ done = 0
    /\ ret' = value
    /\ done' = 1
    /\ UNCHANGED <<fn, args, streamVars, mainVars>>

SafeDivCall ==
    Returns("_safe_div", SafeDiv(args.numerator, args.denominator))

PrecisionRecallCall ==
    Returns("_precision_recall",
            PrecisionRecall(args.n_gbboxes, args.scores, args.tp, args.fp))

AveragePrecisionCall ==
    Returns("average_precision", AveragePrecision(args.precision, args.recall))

PrecisionRecallValuesCall ==
    Returns("precision_recall_values",
            PrecisionRecallValues(args.xvals, args.precision, args.recall))

GetPreprocessingCall ==
    Returns("get_preprocessing", GetPreprocessing(args.name, args.is_training))

NumBatchesCall ==
    Returns("num_batches",
            NumBatches(args.max_num_batches, args.num_samples, args.batch_size))

\* the caller calls the function get_preprocessing returned
PreprocessingFnCall ==
    /\ fn = "get_preprocessing"
    /\ done = 1
    /\ ret.function # <<>>
    /\ \E positional \in Positionals, kwargs \in Kwargs :
          ret' = [ret EXCEPT !.raised =
                     PreprocessingFn(ret.function[1], positional, kwargs).raised]
                 @@ [called |-> [positional |-> positional, kwargs |-> kwargs],
                     forwarded |->
                     PreprocessingFn(ret.function[1], positional, kwargs).forwarded]
    /\ done' = 2
    /\ UNCHANGED <<fn, args, streamVars, mainVars>>

NextFn ==
    \/ SafeDivCall
    \/ PrecisionRecallCall
    \/ AveragePrecisionCall
    \/ PrecisionRecallValuesCall
    \/ GetPreprocessingCall
    \/ NumBatchesCall
    \/ PreprocessingFnCall

SpecFn == InitFn /\ [][NextFn]_vars

(***************************************************************************)
(* Spec: one streaming_precision_recall_arrays metric.  Each step runs     *)
(* update_op on a fresh batch or reads the value op.                       *)
(***************************************************************************)
\* A detection as the caller holds it: predicted class, score and the two
\* matching flags.  The tensors rclasses, rscores, tp_tensor and fp_tensor
\* of a batch are the four fields of a [images, detections] grid of these.
Detections ==
    { [class |-> 3,  score |-> 2, tp |-> TRUE,  fp |-> FALSE],
      [class |-> 5,  score |-> 1, tp |-> FALSE, fp |-> TRUE],
      [class |-> 0,  score |-> 1, tp |-> FALSE, fp |-> FALSE],
      [class |-> 0,  score |-> 2, tp |-> TRUE,  fp |-> FALSE],
      [class |-> -1, score |-> 2, tp |-> TRUE,  fp |-> FALSE] }
Images == {1, 2}                    \* images per batch
GTCounts == {0, 2}                  \* ground-truth boxes per image

Field(grid, f) ==
    [i \in 1..Len(grid) |-> [j \in 1..Len(grid[i]) |-> grid[i][j][f]]]

\* the raw detections fed so far, over all batches
RECURSIVE FedCount(_)
FedCount(h) ==
    IF h = <<>> THEN 0
    ELSE Len(h[1].grid) * Len(h[1].grid[1]) + FedCount(Tail(h))

\* mask = tf.greater(rclasses, 0)
ZeroLabelMaskNonZero(rclasses) == [i \in 1..Len(rclasses) |-> rclasses[i] # 0]

ZeroLabelMask(rclasses) == [i \in 1..Len(rclasses) |-> rclasses[i] > 0]

\* tf.concat([v, t], axis=0) assigned to v
ConcatOverwrite(v, t) == t

Concat(v, t) == v \o t

\* the casts, the reshapes and the removal of the 0 classes: the flat
\* tensors the update operations append
Cleaned(rclasses, rscores, tp_tensor, fp_tensor, remove_zero) ==
    LET rclasses1 == Flatten(rclasses)
        rscores1 == Flatten(rscores)
        tp_tensor0 == [i \in 1..Len(tp_tensor) |-> ToFloat(tp_tensor[i])]
        fp_tensor0 == [i \in 1..Len(fp_tensor) |-> ToFloat(fp_tensor[i])]
        tp_tensor1 == Flatten(tp_tensor0)
        fp_tensor1 == tp_tensor1
        mask == ZeroLabelMask(rclasses1)
    IN  IF remove_zero
        THEN [rclasses |-> BooleanMask(rclasses1, mask),
              rscores |-> BooleanMask(rscores1, mask),
              tp_tensor |-> BooleanMask(tp_tensor1, mask),
              fp_tensor |-> BooleanMask(fp_tensor1, mask)]
        ELSE [rclasses |-> rclasses1,
              rscores |-> rscores1,
              tp_tensor |-> tp_tensor1,
              fp_tensor |-> fp_tensor1]

Init ==
    /\ remove_zero_labels \in BOOLEAN
    /\ v_nobjects = 0
    /\ v_scores = <<>>
    /\ v_tp = <<>>
    /\ v_fp = <<>>
    /\ fetched = <<>>
    /\ fed = <<>>
    /\ FnIdle
    /\ MainIdle

\* one run of update_op on the batch (n_gbboxes, grid)
UpdateOp(n_gbboxes, grid) ==
    LET c == Cleaned(Field(grid, "class"), Field(grid, "score"),
                     Field(grid, "tp"), Field(grid, "fp"), remove_zero_labels)
    IN  /\ v_nobjects' = v_nobjects + SumSeq(n_gbboxes)
        /\ v_scores' = Concat(v_scores, c.rscores)
        /\ v_tp' = Concat(v_tp, c.tp_tensor)
        /\ v_fp' = Concat(v_fp, c.fp_tensor)
        /\ fetched' = [op |-> "update_op",
                        value |-> PrecisionRecall(v_nobjects', v_scores', v_tp',
                                                  v_fp')]
        /\ fed' = Append(fed, [n_gbboxes |-> n_gbboxes, grid |-> grid])
        /\ UNCHANGED <<remove_zero_labels, fnVars, mainVars>>

Update ==
    /\ Len(fed) < MaxUpdates
    /\ \E images \in Images, detections \in 0..MaxAcc :
          /\ FedCount(fed) + images * detections <= MaxAcc
          /\ \E n_gbboxes \in [1..images -> GTCounts],
                grid \in [1..images -> [1..detections -> Detections]] :
                UpdateOp(n_gbboxes, grid)

\* one run of the value op r
Value ==
    /\ fetched' = [op |-> "r",
                    value |-> PrecisionRecall(v_nobjects, v_scores, v_tp, v_fp)]
    /\ UNCHANGED <<remove_zero_labels, v_nobjects, v_scores, v_tp, v_fp, fed,
                   fnVars, mainVars>>

Next ==
    \/ Update
    \/ Value

Spec == Init /\ [][Next]_vars

(***************************************************************************)
(* SpecOrder: the same batches fed to two fresh metrics in two orders, and *)
(* the value op of each read at the end.                                   *)
(***************************************************************************)
\* the detections drawn here: two of them share score 1 and differ in flags
OrderDetections ==
    { [class |-> 3, score |-> 2, tp |-> TRUE,  fp |-> FALSE],
      [class |-> 3, score |-> 1, tp |-> TRUE,  fp |-> FALSE],
      [class |-> 0, score |-> 1, tp |-> FALSE, fp |-> TRUE] }

\* images per batch here; Spec covers the flattening of several images
OrderImages == {1}

\* the batches that hold c detections in all
BatchesWith(c) ==
    UNION {{[n_gbboxes |-> n, grid |-> g] :
               n \in [1..images -> GTCounts],
               g \in [1..images -> [1..(c \div images) -> OrderDetections]]} :
           images \in {i \in OrderImages : c % i = 0}}

\* the runs of len batches that hold at most budget detections in all
RECURSIVE BatchSeqs(_, _)
BatchSeqs(len, budget) ==
    IF len = 0 THEN {<<>>}
    ELSE UNION {{<<b>> \o rest : b \in BatchesWith(c),
                                 rest \in BatchSeqs(len - 1, budget - c)} :
                c \in 0..budget}

\* the local variables of a fresh metric after update_op ran on each batch
RECURSIVE RunUpdates(_, _)
RunUpdates(batches, remove_zero) ==
    IF batches = <<>>
    THEN [v_nobjects |-> 0, v_scores |-> <<>>, v_tp |-> <<>>, v_fp |-> <<>>]
    ELSE LET n == Len(batches)
             before == RunUpdates(SubSeq(batches, 1, n - 1), remove_zero)
             grid == batches[n].grid
             c == Cleaned(Field(grid, "class"), Field(grid, "score"),
                          Field(grid, "tp"), Field(grid, "fp"), remove_zero)
         IN  [v_nobjects |-> before.v_nobjects + SumSeq(batches[n].n_gbboxes),
              v_scores |-> Concat(before.v_scores, c.rscores),
              v_tp |-> Concat(before.v_tp, c.tp_tensor),
              v_fp |-> Concat(before.v_fp, c.fp_tensor)]

\* the value op r read after the updates
ValueAfter(batches, remove_zero) ==
    LET m == RunUpdates(batches, remove_zero)
    IN  PrecisionRecall(m.v_nobjects, m.v_scores, m.v_tp, m.v_fp)

Orders(n) == {f \in [1..n -> 1..n] : \A i, j \in 1..n : f[i] = f[j] => i = j}
Reordered(batches, order) == [i \in 1..Len(batches) |-> batches[order[i]]]

InitOrder ==
    /\ StreamIdle
    /\ MainIdle
    /\ fn = "update_op"
    /\ ret = <<>>
    /\ done = 0
    /\ \E len \in 0..MaxUpdates :
          args \in [remove_zero_labels : BOOLEAN,
                    batches : BatchSeqs(len, MaxAcc)]

\* feed the batches as drawn to one metric and reordered to another
FeedTwoOrders ==
    /\ fn = "update_op"
    /\ done = 0
    /\ \E order \in Orders(Len(args.batches)) :
          ret' = [order |-> order,
                  drawn |-> ValueAfter(args.batches, args.remove_zero_labels),
                  reordered |-> ValueAfter(Reordered(args.batches, order),
                                           args.remove_zero_labels)]
    /\ done' = 1
    /\ UNCHANGED <<fn, args, streamVars, mainVars>>

NextOrder == FeedTwoOrders

SpecOrder == InitOrder /\ [][NextOrder]_vars

(***************************************************************************)
(* SpecMain: main() of eval_ssd_network.py, one action per statement       *)
(* group.  An exception ends main(): pc = "raised" and error holds it.     *)
(***************************************************************************)
DEFAULT_BATCH_SIZE == 100
OptStrs(S) == {<<>>} \cup {<<x>> : x \in S}
ModelNames == {"ssd_300_vgg", "ssd_512_vgg", "inception_v3"}
SampleCounts == {0, 4, 950}

InitMain ==
    /\ StreamIdle
    /\ FnIdle
    /\ FLAGS \in [dataset_dir : OptStrs({"", "/data/voc"}),
                  model_name : ModelNames,
                  preprocessing_name : OptStrs({"", "vgg_16", "VGG"}),
                  max_num_batches : OptInts,
                  batch_size : {1, DEFAULT_BATCH_SIZE}]
    /\ dataset = <<>>
    /\ pc = "check_dataset_dir"
    /\ error = <<>>
    /\ image_preprocessing_fn = <<>>
    /\ built = {}
    /\ evals_run = 0

Raise(type, message) ==
    /\ pc' = "raised"
    /\ error' = <<[type |-> type, message |-> message]>>

\* the check placed after the graph and the global step are created
CheckDatasetDirAfterGraph ==
    /\ pc = "check_dataset_dir"
    /\ built' = built \cup {"graph", "global_step"}
    /\ IF ~TruthyStr(FLAGS.dataset_dir)
       THEN Raise("ValueError",
                  "You must supply the dataset directory with --dataset_dir")
       ELSE /\ pc' = "get_dataset"
            /\ UNCHANGED error
    /\ UNCHANGED <<FLAGS, dataset, image_preprocessing_fn, evals_run,
                   streamVars, fnVars>>

\* if not FLAGS.dataset_dir: raise ValueError(...)
CheckDatasetDir ==
    /\ pc = "check_dataset_dir"
    /\ IF ~TruthyStr(FLAGS.dataset_dir)
       THEN /\ Raise("ValueError",
                     "You must supply the dataset directory with --dataset_dir")
            /\ UNCHANGED built
       ELSE /\ pc' = "get_dataset"
            /\ built' = built \cup {"graph", "global_step"}
            /\ UNCHANGED error
    /\ UNCHANGED <<FLAGS, dataset, image_preprocessing_fn, evals_run,
                   streamVars, fnVars>>

\* dataset = dataset_factory.get_dataset(...): the factory resolves the split
GetDataset ==
    /\ pc = "get_dataset"
    /\ \E num_samples \in SampleCounts :
          dataset' = <<[num_samples |-> num_samples]>>
    /\ pc' = "get_network"
    /\ built' = built \cup {"dataset"}
    /\ UNCHANGED <<FLAGS, error, image_preprocessing_fn, evals_run,
                   streamVars, fnVars>>

\* the factory does not know the dataset name or finds no files
GetDatasetFails ==
    /\ pc = "get_dataset"
    /\ Raise("ValueError", "dataset_factory.get_dataset")
    /\ UNCHANGED <<FLAGS, dataset, image_preprocessing_fn, built, evals_run,
                   streamVars, fnVars>>

\* ssd_class = nets_factory.get_network(...) up to ssd_anchors
GetNetwork ==
    /\ pc = "get_network"
    /\ pc' = "get_preprocessing"
    /\ built' = built \cup {"ssd_net", "ssd_anchors"}
    /\ UNCHANGED <<FLAGS, dataset, error, image_preprocessing_fn, evals_run,
                   streamVars, fnVars>>

\* the factory does not know the model name
GetNetworkFails ==
    /\ pc = "get_network"
    /\ Raise("ValueError", "nets_factory.get_network")
    /\ UNCHANGED <<FLAGS, dataset, image_preprocessing_fn, built, evals_run,
                   streamVars, fnVars>>

\* preprocessing_name = FLAGS.preprocessing_name or FLAGS.model_name
PreprocessingName ==
    IF TruthyStr(FLAGS.preprocessing_name)
    THEN FLAGS.preprocessing_name[1]
    ELSE FLAGS.model_name

\* image_preprocessing_fn = preprocessing_factory.get_preprocessing(
\*     preprocessing_name, is_training=False)
SelectPreprocessing ==
    /\ pc = "get_preprocessing"
    /\ LET got == GetPreprocessing(PreprocessingName, FALSE)
       IN  IF got.raised # ""
           THEN /\ Raise(got.raised, got.message)
                /\ UNCHANGED <<image_preprocessing_fn, built>>
           ELSE /\ image_preprocessing_fn' = got.function
                /\ pc' = "provider"
                /\ built' = built \cup {"image_preprocessing_fn"}
                /\ UNCHANGED error
    /\ UNCHANGED <<FLAGS, dataset, evals_run, streamVars, fnVars>>

\* provider = DatasetDataProvider(...); provider.get([...])
CreateProvider ==
    /\ pc = "provider"
    /\ pc' = "preprocess"
    /\ built' = built \cup {"provider"}
    /\ UNCHANGED <<FLAGS, dataset, error, image_preprocessing_fn, evals_run,
                   streamVars, fnVars>>

\* image, glabels, gbboxes, gbbox_img =
\*     image_preprocessing_fn(image, glabels, gbboxes, ssd_shape)
Preprocess ==
    /\ pc = "preprocess"
    /\ LET call == PreprocessingFn(image_preprocessing_fn[1],
                                   <<"image", "glabels", "gbboxes", "ssd_shape">>,
                                   {})
       IN  IF call.raised # ""
           THEN /\ Raise(call.raised, "preprocessing_fn")
                /\ UNCHANGED built
           ELSE /\ pc' = "bboxes_encode"
                /\ built' = built \cup {"preprocessed"}
                /\ UNCHANGED error
    /\ UNCHANGED <<FLAGS, dataset, image_preprocessing_fn, evals_run,
                   streamVars, fnVars>>

NextMain ==
    \/ CheckDatasetDir
    \/ GetDataset
    \/ GetDatasetFails
    \/ GetNetwork
    \/ GetNetworkFails
    \/ SelectPreprocessing
    \/ CreateProvider
    \/ Preprocess

SpecMain == InitMain /\ [][NextMain]_vars

(***************************************************************************)
(* Properties of the streaming metric (Spec).                              *)
(***************************************************************************)
IsPrefix(a, b) == Len(a) <= Len(b) /\ \A i \in 1..Len(a) : b[i] = a[i]

\* every n_gbboxes value fed so far, and every detection fed so far in the
\* order the caller laid them out (batch by batch, image by image)
RECURSIVE FedGroundTruth(_)
FedGroundTruth(h) ==
    IF h = <<>> THEN <<>> ELSE h[1].n_gbboxes \o FedGroundTruth(Tail(h))

RECURSIVE FedDetections(_)
FedDetections(h) ==
    IF h = <<>> THEN <<>> ELSE Flatten(h[1].grid) \o FedDetections(Tail(h))

Total(ns) == LET S[i \in 0..Len(ns)] == IF i = 0 THEN 0 ELSE S[i - 1] + ns[i]
             IN  S[Len(ns)]

Accumulators == <<v_nobjects, v_scores, v_tp, v_fp>>

\* C1: after any sequence of update calls total_ground_truth equals the sum
\* of every n_gbboxes value fed so far, each of all_scores, all_true_positive
\* and all_false_positive has its value from before the latest update as a
\* prefix, and reading the current value changes none of the four.
C1_Step ==
    /\ v_nobjects' = Total(FedGroundTruth(fed'))
    /\ IsPrefix(v_scores, v_scores')
    /\ IsPrefix(v_tp, v_tp')
    /\ IsPrefix(v_fp, v_fp')
    /\ fetched'.op = "r" => Accumulators' = Accumulators

C1_AppendOnly == [][C1_Step]_vars

\* two updates that both appended, the value read after them
C1_Witness ==
    /\ Len(fed) = 2
    /\ v_nobjects = 4
    /\ Len(Flatten(fed[1].grid)) = 1
    /\ Len(Flatten(fed[2].grid)) = 1
    /\ Len(v_scores) = 2
    /\ fetched.op = "r"

\* C3: with remove_zero_labels disabled all_false_positive is the
\* concatenation, in update order, of each batch's flattened fp_tensor
\* values, as all_true_positive is of the tp_tensor values.
C3_FalsePositivesAreFed ==
    ~remove_zero_labels =>
        /\ v_fp = [i \in 1..Len(FedDetections(fed)) |->
                      IF FedDetections(fed)[i].fp THEN 1 ELSE 0]
        /\ v_tp = [i \in 1..Len(FedDetections(fed)) |->
                      IF FedDetections(fed)[i].tp THEN 1 ELSE 0]

HasNonZeroClass(d) == d.class # 0
HasPositiveClass(d) == d.class > 0

\* the scores and true-positive flags of the detections `kept`
ScoresAndFlagsOf(kept) ==
    /\ v_scores = [i \in 1..Len(kept) |-> kept[i].score]
    /\ v_tp = [i \in 1..Len(kept) |-> IF kept[i].tp THEN 1 ELSE 0]

\* C4 as stated: with remove_zero_labels true the detections dropped are
\* exactly those of class id 0; what is appended are the scores and
\* true-positive flags of the detections of class id different from 0, in
\* flattened order, each score with its own flag.
C4_DropsExactlyClassZero ==
    remove_zero_labels =>
        ScoresAndFlagsOf(SelectSeq(FedDetections(fed), HasNonZeroClass))

\* C4 as amended: with remove_zero_labels true the detections dropped are
\* exactly those of class id <= 0; what is appended are the scores and
\* true-positive flags of the detections of class id > 0, in flattened
\* order, each score with its own flag.
C4_DropsNonPositiveClasses ==
    remove_zero_labels =>
        ScoresAndFlagsOf(SelectSeq(FedDetections(fed), HasPositiveClass))

\* a batch of two images: a class-0 detection carrying a true-positive flag
\* is dropped, the class-5 detection after it is kept
C4_Witness ==
    /\ remove_zero_labels
    /\ Len(fed) = 1
    /\ Len(fed[1].grid) = 2
    /\ Len(fed[1].grid[1]) = 1
    /\ fed[1].grid[1][1] = [class |-> 0, score |-> 2, tp |-> TRUE, fp |-> FALSE]
    /\ fed[1].grid[2][1] = [class |-> 5, score |-> 1, tp |-> FALSE, fp |-> TRUE]
    /\ v_scores = <<1>>
    /\ v_tp = <<0>>

(***************************************************************************)
(* Properties of the pure functions (SpecFn).                              *)
(***************************************************************************)
Applied(f) == fn = f /\ done = 1

\* the detections ranked at or before detection i when sorted by descending
\* score, equal scores in index order
AtOrBefore(scores, i) ==
    {j \in 1..Len(scores) :
        scores[j] > scores[i] \/ (scores[j] = scores[i] /\ j <= i)}

\* the detection at rank p
AtRank(scores, p) ==
    CHOOSE i \in 1..Len(scores) : Cardinality(AtOrBefore(scores, i)) = p

\* how many flags are set among the detections up to rank p
CumulativeAtRank(scores, flags, p) ==
    Cardinality({j \in AtOrBefore(scores, AtRank(scores, p)) : flags[j] = 1})

\* q is the quotient a / b of integers, b > 0
IsQuotient(q, a, b) == q[2] > 0 /\ q[1] * b = a * q[2]

\* C2: _precision_recall returns two sequences of length k in descending-score
\* order with recall[i] = cumulative TP[i] / total (0 if total <= 0) and
\* precision[i] = cumulative TP[i] / (cumulative TP[i] + cumulative FP[i])
\* (0 if that denominator is <= 0); the recall sequence is non-decreasing.
C2_PrecisionRecallByRank ==
    Applied("_precision_recall") =>
        LET k == Len(args.scores)
            precision == ret[1]
            recall == ret[2]
            ctp(p) == CumulativeAtRank(args.scores, args.tp, p)
            cfp(p) == CumulativeAtRank(args.scores, args.fp, p)
        IN  /\ Len(ret) = 2
            /\ Len(precision) = k
            /\ Len(recall) = k
            /\ \A p \in 1..k :
                  /\ IF args.n_gbboxes <= 0
                     THEN recall[p] = Zero
                     ELSE IsQuotient(recall[p], ctp(p), args.n_gbboxes)
                  /\ IF ctp(p) + cfp(p) <= 0
                     THEN precision[p] = Zero
                     ELSE IsQuotient(precision[p], ctp(p), ctp(p) + cfp(p))
            /\ \A p \in 1..(k - 1) : RLeq(recall[p], recall[p + 1])

\* a true positive with the lower score behind a false positive: rank 1 has
\* recall 0 and precision 0, rank 2 recall 1/2 and precision 1/2
C2_Witness ==
    /\ Applied("_precision_recall")
    /\ args.n_gbboxes = 2
    /\ args.scores = <<1, 2>>
    /\ args.tp = <<1, 0>>
    /\ args.fp = <<0, 1>>
    /\ ret = << <<Zero, Half>>, <<Zero, Half>> >>

\* the padded curve and its envelope, written pointwise
PaddedPrecision == <<Zero>> \o args.precision \o <<Zero>>
PaddedRecall == <<Zero>> \o args.recall \o <<One>>
Envelope(i) ==
    CHOOSE m \in {PaddedPrecision[j] : j \in i..Len(PaddedPrecision)} :
        \A j \in i..Len(PaddedPrecision) : RLeq(PaddedPrecision[j], m)
ReferenceAP ==
    LET n == Len(PaddedPrecision)
        term(i) == RMul(RMul(RAdd(Envelope(i), Envelope(i + 1)), Half),
                        RSub(PaddedRecall[i + 1], PaddedRecall[i]))
        S[i \in 0..(n - 1)] == IF i = 0 THEN Zero ELSE RAdd(S[i - 1], term(i))
    IN  S[n - 1]

\* C5: average_precision equals the reference computation (pad with (0, 0) in
\* front and (0, 1) at the end, envelope each precision by the maximum of
\* itself and all later ones, sum mean-of-pair times recall difference);
\* precision=[1], recall=[1] gives 1 and the empty curve gives 0.
C5_AveragePrecisionReference ==
    Applied("average_precision") =>
        /\ ret = ReferenceAP
        /\ (args.precision = <<One>> /\ args.recall = <<One>>) => ret = One
        /\ (args.precision = <<>> /\ args.recall = <<>>) => ret = Zero

\* a curve whose first precision is raised by the envelope
C5_Witness ==
    /\ Applied("average_precision")
    /\ args.precision = <<Half, One>>
    /\ args.recall = <<Half, One>>
    /\ ret = One

\* the curve points whose recall is <= x
Qualifying(x) == {i \in 1..Len(args.recall) : RLeq(args.recall[i], x)}

\* C6: precision_recall_values returns one value per requested recall level,
\* in request order, and whenever some curve point has recall <= x the value
\* for x is the minimum precision among the points whose recall is <= x.
C6_MinPrecisionAmongQualifying ==
    Applied("precision_recall_values") =>
        /\ Len(ret) = Len(args.xvals)
        /\ \A k \in 1..Len(args.xvals) :
              Qualifying(args.xvals[k]) # {} =>
                  \E m \in Qualifying(args.xvals[k]) :
                      /\ ret[k] = args.precision[m]
                      /\ \A i \in Qualifying(args.xvals[k]) :
                            RLeq(args.precision[m], args.precision[i])

\* C7: whenever no curve point has recall <= x, the empty curve included,
\* precision_recall_values reports exactly 0 for x.
C7_ZeroWhenNoneQualifies ==
    Applied("precision_recall_values") =>
        \A k \in 1..Len(args.xvals) :
            Qualifying(args.xvals[k]) = {} => ret[k] = Zero

\* C8: _safe_div returns exactly 0 for every element whose denominator is
\* <= 0 and exactly numerator/denominator for every element whose
\* denominator is > 0.
C8_SafeDivZeroOrQuotient ==
    Applied("_safe_div") =>
        /\ Len(ret) = Len(args.numerator)
        /\ \A i \in 1..Len(args.numerator) :
              IF args.denominator[i] <= 0
              THEN ret[i] = Zero
              ELSE IsQuotient(ret[i], args.numerator[i], args.denominator[i])

\* a negative denominator under a non-zero numerator next to a positive one
C8_Witness ==
    /\ Applied("_safe_div")
    /\ args.numerator = <<2, 1>>
    /\ args.denominator = <<-1, 2>>
    /\ ret = <<Zero, Half>>

VggNames == {"vgg", "vgg_a", "vgg_16", "vgg_19", "ssd_300_vgg"}
InceptionNames == {"inception_v3", "inception_resnet_v2", "xception",
                   "xception_keras", "dception"}
NotRecognized ==
    [n \in Names \ (VggNames \cup InceptionNames) |->
        CASE n = "" -> "Preprocessing name [] was not recognized"
          [] n = "VGG" -> "Preprocessing name [VGG] was not recognized"
          [] n = "Vgg_16" -> "Preprocessing name [Vgg_16] was not recognized"
          [] n = "vgg_17" -> "Preprocessing name [vgg_17] was not recognized"
          [] n = "resnet_v1_50" ->
                "Preprocessing name [resnet_v1_50] was not recognized"
          [] n = "ssd_512_vgg" ->
                "Preprocessing name [ssd_512_vgg] was not recognized"]

\* C10: for each of the 10 exact keys get_preprocessing returns a function
\* that forwards to the key's family preprocess_image with the is_training
\* given at selection; for every other string it returns no function and
\* fails with "Preprocessing name [<name>] was not recognized".
C10_GetPreprocessingTotal ==
    (fn = "get_preprocessing" /\ done >= 1) =>
        LET family == IF args.name \in VggNames THEN "vgg_preprocessing"
                      ELSE IF args.name \in InceptionNames
                           THEN "inception_preprocessing"
                           ELSE ""
        IN  IF family = ""
            THEN /\ done = 1
                 /\ ret.function = <<>>
                 /\ ret.raised = "ValueError"
                 /\ ret.message = NotRecognized[args.name]
            ELSE /\ ret.function # <<>>
                 /\ ret.message = ""
                 /\ done = 1 => ret.raised = ""
                 /\ (/\ done = 2
                     /\ Len(ret.called.positional) = 3
                     /\ "is_training" \notin ret.called.kwargs) =>
                        /\ ret.raised = ""
                        /\ Len(ret.forwarded) = 1
                        /\ ret.forwarded[1].module = family
                        /\ ret.forwarded[1].function = "preprocess_image"
                        /\ ret.forwarded[1].is_training = args.is_training
                        /\ ret.forwarded[1].positional = ret.called.positional
                        /\ ret.forwarded[1].kwargs = ret.called.kwargs

\* the SSD key selected for training and called with three positionals
C10_Witness ==
    /\ fn = "get_preprocessing"
    /\ done = 2
    /\ args.name = "ssd_300_vgg"
    /\ args.is_training = TRUE
    /\ ret.raised = ""
    /\ Len(ret.forwarded) = 1
    /\ ret.forwarded[1].module = "vgg_preprocessing"
    /\ ret.forwarded[1].is_training = TRUE

(***************************************************************************)
(* Properties of the driver (SpecMain).                                    *)
(***************************************************************************)
\* main() has ended, by returning or by an exception
Ended == pc \in {"done", "raised"}

\* C9: the number of batches the evaluation loop runs equals max_num_batches
\* whenever that flag is configured, for every integer, and equals
\* ceil(dataset sample count / batch_size) only when the flag is unset.
\* Stated of the runs whose dataset, network and preprocessing name resolve.
C9_BatchesRunAsConfigured ==
    (Ended /\ image_preprocessing_fn # <<>>) =>
        evals_run = IF FLAGS.max_num_batches # <<>>
                    THEN FLAGS.max_num_batches[1]
                    ELSE Ceil(dataset[1].num_samples, FLAGS.batch_size)

\* C11: when dataset_dir is absent (None or empty) main() fails with the
\* error "You must supply the dataset directory ..." before any pipeline
\* step: no graph, dataset, model, preprocessing function, provider or
\* metric is constructed and no batch is evaluated.
C11_FailsFastWithoutDatasetDir ==
    (FLAGS.dataset_dir \in {<<>>, <<"">>} /\ pc # "check_dataset_dir") =>
        /\ pc = "raised"
        /\ error = <<[type |-> "ValueError",
                      message |-> "You must supply the dataset directory"
                                  \o " with --dataset_dir"]>>
        /\ built = {}
        /\ dataset = <<>>
        /\ image_preprocessing_fn = <<>>
        /\ evals_run = 0

\* main() has raised on a dataset_dir left at its default None
C11_Witness ==
    /\ pc = "raised"
    /\ FLAGS.dataset_dir = <<>>
    /\ error # <<>>
    /\ error[1].type = "ValueError"
    /\ built = {}

\* C13: for every recognized preprocessing name the function returned by
\* get_preprocessing accepts the driver's per-sample call with four
\* positional arguments (image, labels, boxes, target shape) and forwards it
\* without an argument error, so main() reaches the ground-truth encoding.
C13_PreprocessingCallAccepted ==
    (image_preprocessing_fn # <<>> /\ pc \notin {"provider", "preprocess"}) =>
        /\ pc = "bboxes_encode"
        /\ error = <<>>
        /\ "preprocessed" \in built

(***************************************************************************)
(* Properties of the metric under reordering (SpecOrder).                  *)
(***************************************************************************)
\* C12 as stated: the curve depends only on the total accumulated data and
\* not on arrival order: for every set of batches, equal scores with
\* different true-positive flags included, any two orders yield the same
\* (precision, recall) sequences.
C12_CurveIgnoresOrder ==
    Applied("update_op") => ret.drawn = ret.reordered

\* every detection of the batches fed
RECURSIVE AllDetections(_)
AllDetections(batches) ==
    IF batches = <<>> THEN {}
    ELSE {batches[1].grid[i][j] :
             i \in 1..Len(batches[1].grid),
             j \in 1..Len(batches[1].grid[1])}
         \cup AllDetections(Tail(batches))

\* detections that share a score share their flags
TiesAgree(batches) ==
    \A d, e \in AllDetections(batches) :
        d.score = e.score => (d.tp = e.tp /\ d.fp = e.fp)

\* C12 as amended: for every set of batches in which detections that share
\* a score also share their true-positive and false-positive flags, any
\* two orders yield the same (precision, recall) sequences.
C12_CurveIgnoresOrderWithoutTies ==
    (Applied("update_op") /\ TiesAgree(args.batches)) =>
        ret.drawn = ret.reordered

\* two batches of distinct scores fed low score first and then swapped
C12_Witness ==
    /\ Applied("update_op")
    /\ Len(args.batches) = 2
    /\ ~args.remove_zero_labels
    /\ ret.order = <<2, 1>>
    /\ TiesAgree(args.batches)
    /\ args.batches[1].grid =
           << <<[class |-> 0, score |-> 1, tp |-> FALSE, fp |-> TRUE]>> >>
    /\ args.batches[2].grid =
           << <<[class |-> 3, score |-> 2, tp |-> TRUE, fp |-> FALSE]>> >>
    /\ args.batches[1].n_gbboxes = <<2>>
    /\ args.batches[2].n_gbboxes = <<0>>
    /\ ret.drawn = << <<Half, Half>>, <<Half, Half>> >>
    /\ ret.reordered = ret.drawn

====
